---- MODULE Spec2Model ----
(***************************************************************************)
(* Model of gauravchak/intent_modeling: the greedy intent-diversity page   *)
(* orderer (src/src/intent_diversity.py), the baseline orderers            *)
(* (src/src/page_ranking_baseline.py), the evaluation metric               *)
(* (src/src/eval.py) and the relations generate_data (src/src/gen_data.py) *)
(* establishes between its outputs.                                        *)
(*                                                                         *)
(* Numbers.  A numpy float64 is modelled as a pair <<n, d>>:               *)
(*   d > 0        the rational n/d in lowest terms,                        *)
(*   <<0, 0>>     nan,   <<1, 0>>  +inf,   <<-1, 0>>  -inf.                *)
(* Finite arithmetic is exact.  numpy's rules for the non-finite values    *)
(* (x/0, 0/0, 0*inf, nan propagation, nan in comparisons, nan in argmax)   *)
(* are modelled as numpy applies them.  Rounding is not modelled: the      *)
(* inputs are small integers and halves, for which every float64 sum and   *)
(* difference of the program is exact; quotients and products can differ   *)
(* from float64 by rounding in the last place only.                        *)
(***************************************************************************)
EXTENDS Integers, Sequences, FiniteSets, TLC

\* ------------------------------------------------------------------ bounds

\* Largest number of candidate items N of a drawn pool.
MaxN == 3

\* Largest number of intents V of a drawn pool.
MaxV == 2

\* Largest number of cells N * V of a drawn score matrix.
MaxCells == 6

\* ------------------------------------------------------------- float values

NaN == <<0, 0>>

PosInf == <<1, 0>>

NegInf == <<-1, 0>>

Zero == <<0, 1>>

One == <<1, 1>>

Abs(n) == IF n < 0 THEN -n ELSE n

RECURSIVE GCD(_, _)
GCD(a, b) == IF b = 0 THEN a ELSE GCD(b, a % b)

\* The float n/d (d # 0) in lowest terms with a positive denominator.
Rat(n, d) ==
    LET s == IF d < 0 THEN -1 ELSE 1
        g == GCD(Abs(n), Abs(d))
    IN  <<(s * n) \div g, (s * d) \div g>>

IsNaN(x) == x = NaN

IsFinite(x) == x[2] > 0

Sign(x) == IF x[1] > 0 THEN 1 ELSE IF x[1] < 0 THEN -1 ELSE 0

\* x < y as float64 compares: false as soon as one side is nan.
Less(x, y) ==
    /\ ~IsNaN(x)
    /\ ~IsNaN(y)
    /\ IF IsFinite(x) /\ IsFinite(y)
       THEN x[1] * y[2] < y[1] * x[2]
       ELSE IF IsFinite(x) THEN y = PosInf
       ELSE IF IsFinite(y) THEN x = NegInf
       ELSE x = NegInf /\ y = PosInf

Leq(x, y) == ~IsNaN(x) /\ ~IsNaN(y) /\ ~Less(y, x)

Neg(x) == <<-x[1], x[2]>>

Add(x, y) ==
    IF IsNaN(x) \/ IsNaN(y) THEN NaN
    ELSE IF IsFinite(x) /\ IsFinite(y)
         THEN LET g == GCD(x[2], y[2])
              IN  Rat(x[1] * (y[2] \div g) + y[1] * (x[2] \div g),
                      (x[2] \div g) * y[2])
    ELSE IF IsFinite(x) THEN y
    ELSE IF IsFinite(y) THEN x
    ELSE IF x = y THEN x ELSE NaN

Sub(x, y) == Add(x, Neg(y))

Mul(x, y) ==
    IF IsNaN(x) \/ IsNaN(y) THEN NaN
    ELSE IF IsFinite(x) /\ IsFinite(y)
         THEN LET g1 == GCD(Abs(x[1]), y[2])
                  g2 == GCD(Abs(y[1]), x[2])
              IN  IF x[1] = 0 \/ y[1] = 0 THEN Zero
                  ELSE <<(x[1] \div g1) * (y[1] \div g2),
                         (x[2] \div g2) * (y[2] \div g1)>>
    ELSE IF Sign(x) = 0 \/ Sign(y) = 0 THEN NaN
    ELSE <<Sign(x) * Sign(y), 0>>

\* numpy float64 division: x/0 is +-inf (nan for 0/0) with a warning, never
\* an exception.  A zero is +0.0 here: the program's zeros come from sums and
\* differences of non-negative numbers.
Div(x, y) ==
    IF IsNaN(x) \/ IsNaN(y) THEN NaN
    ELSE IF IsFinite(y)
         THEN IF y[1] = 0
              THEN <<Sign(x), 0>>
              ELSE IF IsFinite(x)
                   THEN Mul(x, Rat(y[2], y[1]))
                   ELSE <<Sign(x) * Sign(y), 0>>
    ELSE IF IsFinite(x) THEN Zero ELSE NaN

\* Python's builtin max(a, b): b if b > a else a (so max(nan, b) is nan).
PyMax(a, b) == IF Less(a, b) THEN b ELSE a

\* ------------------------------------------------------------ numpy helpers

\* The array [i \in 1..n |-> ...] as a tuple (its entries computed once).
Arr(f) == f \o <<>>

\* s[0] + ... + s[k-1], left to right.
RECURSIVE SumTo(_, _)
SumTo(s, k) == IF k = 0 THEN Zero ELSE Add(SumTo(s, k - 1), s[k])

\* np.sum / Python's sum over a one-dimensional array.
SumSeq(s) == SumTo(s, Len(s))

\* es[:, v]: column v of an [N, V] matrix held as a sequence of rows.
Column(m, v) == Arr([i \in 1..Len(m) |-> m[i][v]])

\* s with x inserted before the first element greater than x.
RECURSIVE Insert(_, _)
Insert(s, x) ==
    IF s = <<>> THEN <<x>>
    ELSE IF Less(x, s[1]) THEN <<x>> \o s
    ELSE <<s[1]>> \o Insert(Tail(s), x)

\* np.sort / sorted: ascending.
RECURSIVE SortAsc(_)
SortAsc(s) == IF s = <<>> THEN <<>> ELSE Insert(SortAsc(SubSeq(s, 1, Len(s) - 1)), s[Len(s)])

\* s[::-1]
Reverse(s) == Arr([i \in 1..Len(s) |-> s[Len(s) + 1 - i]])

\* s[:k] for k >= 0
FirstK(s, k) == SubSeq(s, 1, IF k < Len(s) THEN k ELSE Len(s))

\* s[-k:] for k >= 0.  -0 is 0, so s[-0:] is the whole of s; so is s[-k:]
\* for k > len(s).
LastK(s, k) == IF k = 0 \/ k >= Len(s) THEN s ELSE SubSeq(s, Len(s) - k + 1, Len(s))

\* TopSum with the slice taken from the wrong end: np.sort(a)[:pagelen].
BottomSum(s, k) == SumSeq(FirstK(SortAsc(s), k))

\* np.sum(np.sort(a)[-pagelen:]): the sum of the pagelen largest entries.
TopSum(s, k) == SumSeq(LastK(SortAsc(s), k))

\* sum_j row[j] * w[j]: one entry of np.einsum("ij,j->i", es, w) / np.dot.
Dot(row, w) == SumSeq(Arr([j \in 1..Len(w) |-> Mul(row[j], w[j])]))

\* ArgMax with ties going to the last index holding the largest value.
ArgMaxLast(s) ==
    IF \E i \in 1..Len(s) : IsNaN(s[i])
    THEN (CHOOSE i \in 1..Len(s) :
            /\ IsNaN(s[i])
            /\ \A j \in 1..(i - 1) : ~IsNaN(s[j])) - 1
    ELSE (CHOOSE i \in 1..Len(s) :
            /\ \A j \in 1..Len(s) : ~Less(s[i], s[j])
            /\ \A j \in (i + 1)..Len(s) : Less(s[j], s[i])) - 1

\* np.argmax over a non-empty array, as a 0-based index: the first nan if
\* there is one (nan compares as the maximum), else the first index holding
\* the largest value.
ArgMax(s) ==
    IF \E i \in 1..Len(s) : IsNaN(s[i])
    THEN (CHOOSE i \in 1..Len(s) :
            /\ IsNaN(s[i])
            /\ \A j \in 1..(i - 1) : ~IsNaN(s[j])) - 1
    ELSE (CHOOSE i \in 1..Len(s) :
            /\ \A j \in 1..Len(s) : ~Less(s[i], s[j])
            /\ \A j \in 1..(i - 1) : Less(s[j], s[i])) - 1

\* ---------------------------------------------------- order_page_intents

\* The floor of denom.
DenomFloor == Rat(1, 1000000)

\* Lines 46-62: the locals of order_page_intents before the loop.
SetupIntents(p_pwt, p_vms, p_es, p_pagelen) ==
    [ cwt         |-> Arr([v \in 1..Len(p_pwt) |-> Div(p_pwt[v], SumSeq(p_pwt))]),
      es_a        |-> p_es,
      vms_a       |-> p_vms,
      es_headroom |-> Arr([v \in 1..Len(p_pwt) |-> TopSum(Column(p_es, v), p_pagelen)]),
      vm_headroom |-> TopSum(p_vms, p_pagelen),
      ordered     |-> <<>>,
      scores      |-> <<>>,
      denom       |-> <<>> ]

\* Line 69, 73: current_scores = vms_a * einsum("ij,j->i", es_a, cwt).
CurrentScores(st) ==
    Arr([i \in 1..Len(st.vms_a) |-> Mul(st.vms_a[i], Dot(st.es_a[i], st.cwt))])

\* Lines 91-93: denom = max((vm_headroom - vms_a[i]) / vm_headroom, 1e-6).
Denom(vm_headroom, vm) == PyMax(Div(Sub(vm_headroom, vm), vm_headroom), DenomFloor)

\* Numerator with the operands of the subtraction exchanged.
NumeratorSwapped(headroom, e) == Div(Sub(e, headroom), headroom)

\* Lines 95-97: numerator[v] = (es_headroom[v] - es_a[i, v]) / es_headroom[v].
Numerator(headroom, e) == Div(Sub(headroom, e), headroom)

\* Lines 69-108: one iteration of the while loop.
StepIntents(st) ==
    LET scores == CurrentScores(st)
        best   == ArgMax(scores)
        b      == best + 1
        dn     == Denom(st.vm_headroom, st.vms_a[b])
        V      == Len(st.cwt)
    IN  [ cwt         |-> Arr([v \in 1..V |->
                             Mul(st.cwt[v],
                                 Div(Numerator(st.es_headroom[v], st.es_a[b][v]), dn))]),
          es_a        |-> [st.es_a EXCEPT ![b] = Arr([v \in 1..V |-> Zero])],
          vms_a       |-> [st.vms_a EXCEPT ![b] = Zero],
          es_headroom |-> Arr([v \in 1..V |-> Sub(st.es_headroom[v], st.es_a[b][v])]),
          vm_headroom |-> Sub(st.vm_headroom, st.vms_a[b]),
          ordered     |-> Append(st.ordered, best),
          scores      |-> scores,
          denom       |-> dn ]

\* Lines 65-110: the loop from st to its end, and the final locals.
RECURSIVE RunIntents(_, _)
RunIntents(st, p_pagelen) ==
    IF Len(st.ordered) < p_pagelen THEN RunIntents(StepIntents(st), p_pagelen) ELSE st

\* order_page_intents as a function of its arguments: the returned list.
OrderPageIntents(p_pwt, p_vms, p_es, p_pagelen) ==
    RunIntents(SetupIntents(p_pwt, p_vms, p_es, p_pagelen), p_pagelen).ordered

\* ------------------------------------------------ page_ranking_baseline

\* order_page: itemids[:pagelen], item ids being 0 .. N-1.
OrderPage(n, p_pagelen) == FirstK(Arr([i \in 1..n |-> i - 1]), p_pagelen)

\* The ids 0 .. N-1 not in `done`, by descending vms, equal vms in index order
\* (sorted(..., reverse=True) is stable).
RECURSIVE SortedByVm(_, _)
SortedByVm(p_vms, done) ==
    LET rest == {i \in 1..Len(p_vms) : i \notin done}
    IN  IF rest = {} THEN <<>>
        ELSE LET i == CHOOSE k \in rest :
                        /\ \A j \in rest : ~Less(p_vms[k], p_vms[j])
                        /\ \A j \in rest : j < k => Less(p_vms[j], p_vms[k])
             IN  <<i - 1>> \o SortedByVm(p_vms, done \cup {i})

\* order_page_vm: the first pagelen ids by descending vms.
OrderPageVm(p_vms, p_pagelen) == FirstK(SortedByVm(p_vms, {}), p_pagelen)

\* ------------------------------------------------------------------- state

VARIABLES
    \* arguments of order_page_intents / evaluate_ranking
    es, pwt, vms, maxvals, iwt, pagelen,
    \* locals of order_page_intents
    cwt, es_a, vms_a, es_headroom, vm_headroom, ordered_itemids,
    current_scores, denom,
    \* the intents v whose es_headroom[v] was 0.0 when line 97 divided by it
    zero_divs,
    \* the list order_page_vm returns on the same arguments
    vm_page,
    \* evaluate_ranking: its orderer argument and its locals
    order_page_func, intent_probs, selected_intent, page, numerator,
    denominator, score,
    \* position in the code
    pc

inputs == <<es, pwt, vms, maxvals, iwt, pagelen>>

locals == <<cwt, es_a, vms_a, es_headroom, vm_headroom, ordered_itemids,
            current_scores, denom, zero_divs>>

evals == <<order_page_func, intent_probs, selected_intent, page, numerator,
           denominator, score>>

vars == <<inputs, locals, vm_page, evals, pc>>

\* A local that has not been assigned yet.
Unset == <<>>

N == Len(es)

V == Len(pwt)

\* The locals of order_page_intents as one record.
Locals ==
    [ cwt |-> cwt, es_a |-> es_a, vms_a |-> vms_a, es_headroom |-> es_headroom,
      vm_headroom |-> vm_headroom, ordered |-> ordered_itemids,
      scores |-> current_scores, denom |-> denom ]

\* ------------------------------------------------------------------ inputs

\* Event scores of a drawn pool.
ScoreValues == {Rat(0, 1), Rat(1, 1), Rat(2, 1)}

\* Intent weights pwt of a drawn pool.
WeightValues == {Rat(0, 1), Rat(1, 1), Rat(2, 1)}

\* The shapes <<N, V>> of the drawn pools.
Shapes == {s \in (1..MaxN) \X (1..MaxV) : s[1] * s[2] <= MaxCells}

Matrices(n, v, S) == [1..n -> [1..v -> S]]

\* gen_data.py line 77: vms = np.dot(es, pwt).
VmsOf(p_es, p_pwt) == Arr([i \in 1..Len(p_es) |-> Dot(p_es[i], p_pwt)])

NoLocals ==
    /\ cwt = Unset
    /\ es_a = Unset
    /\ vms_a = Unset
    /\ es_headroom = Unset
    /\ vm_headroom = Unset
    /\ ordered_itemids = Unset
    /\ current_scores = Unset
    /\ denom = Unset
    /\ zero_divs = {}
    /\ vm_page = Unset

NoEval ==
    /\ intent_probs = Unset
    /\ selected_intent = -1
    /\ page = Unset
    /\ numerator = Unset
    /\ denominator = Unset
    /\ score = Unset

\* A call of order_page_intents on a valid pool: N >= 1 items, V >= 1
\* intents, non-negative scores, non-negative weights not all zero,
\* vms = es . pwt, 0 <= pagelen <= N.
Init ==
    /\ \E s \in Shapes :
         /\ es \in Matrices(s[1], s[2], ScoreValues)
         /\ pwt \in [1..s[2] -> WeightValues]
         /\ pagelen \in 0..s[1]
    /\ ~(\A v \in 1..Len(pwt) : pwt[v] = Zero)
    /\ vms = VmsOf(es, pwt)
    /\ maxvals = [v \in 1..Len(pwt) |-> One]
    /\ iwt = [v \in 1..Len(pwt) |-> Mul(pwt[v], maxvals[v])]
    /\ NoLocals
    /\ NoEval
    /\ order_page_func = "none"
    /\ pc = "call"

\* ----------------------------------------------- order_page_intents steps

SetLocals(st) ==
    /\ cwt' = st.cwt
    /\ es_a' = st.es_a
    /\ vms_a' = st.vms_a
    /\ es_headroom' = st.es_headroom
    /\ vm_headroom' = st.vm_headroom
    /\ ordered_itemids' = st.ordered
    /\ current_scores' = st.scores
    /\ denom' = st.denom

\* Lines 46-62.
Setup ==
    /\ pc = "call"
    /\ SetLocals(SetupIntents(pwt, vms, es, pagelen))
    /\ zero_divs' = {}
    /\ pc' = "loop"
    /\ UNCHANGED <<inputs, vm_page, evals>>

\* Lines 65-108: one iteration of the while loop.
Iterate ==
    /\ pc = "loop"
    /\ Len(ordered_itemids) < pagelen
    /\ SetLocals(StepIntents(Locals))
    /\ zero_divs' = zero_divs \cup {v \in 1..V : es_headroom[v] = Zero}
    /\ UNCHANGED <<inputs, vm_page, evals, pc>>

\* Line 65 (loop exit) and line 110.
Return ==
    /\ pc = "loop"
    /\ ~(Len(ordered_itemids) < pagelen)
    /\ pc' = "returned"
    /\ UNCHANGED <<inputs, locals, vm_page, evals>>

Next == Setup \/ Iterate \/ Return

Spec == Init /\ [][Next]_vars

\* ------------------------------------------------- order_page_intents claims

\* The ids selected so far, as a set.
Picked == {ordered_itemids[k] : k \in 1..Len(ordered_itemids)}

\* No id occurs twice in the list.
Distinct(list) == \A j, k \in 1..Len(list) : j # k => list[j] # list[k]

\* C1: on a valid pool, order_page_intents returns exactly pagelen ids, pairwise
\* distinct, each an index 0 .. N-1 of itemids: a selected item is never selected
\* again.
C1_PageValid ==
    pc = "returned" =>
        /\ Len(ordered_itemids) = pagelen
        /\ Distinct(ordered_itemids)
        /\ \A k \in 1..Len(ordered_itemids) : ordered_itemids[k] \in 0..(N - 1)

\* C2: when pagelen = N the returned page is a permutation of all N ids, pools
\* with all-zero items included.
C2_FullPagePermutation ==
    (pc = "returned" /\ pagelen = N) =>
        /\ Len(ordered_itemids) = N
        /\ Picked = 0..(N - 1)

\* C9: in every iteration the divisor denom of the cwt update is a defined
\* number >= 1e-6, vm_headroom = 0 included.
C9_DenomFloored ==
    (pc \in {"loop", "returned"} /\ Len(ordered_itemids) > 0) =>
        /\ IsFinite(denom)
        /\ Leq(DenomFloor, denom)

\* C8: once line 97 has divided by an es_headroom[v] = 0 (the division by
\* vm_headroom being defined) and iterations remain, the undefined value is
\* confined to cwt[v] of those intents, the next iteration computes defined
\* scores for the items not yet selected, and it selects one of them.
C8_DegeneracyLocal ==
    (pc = "loop" /\ Len(ordered_itemids) < pagelen /\ zero_divs # {} /\ IsFinite(denom)) =>
        /\ \A w \in 1..V : w \notin zero_divs => IsFinite(cwt[w])
        /\ \A i \in 1..N : (i - 1) \notin Picked => IsFinite(CurrentScores(Locals)[i])
        /\ ArgMax(CurrentScores(Locals)) \notin Picked

\* The mass of intent v (1-based) on the items selected so far.
PickedMass(v) == SumSeq(Arr([k \in 1..Len(ordered_itemids) |-> es[ordered_itemids[k] + 1][v]]))

\* The selected items are not a top-pagelen set of intent v: they carry less
\* of v than the pagelen largest scores of v.
DiffersFromTop(v) == Less(PickedMass(v), TopSum(Column(es, v), pagelen))

\* A headroom of the locals st is negative and so is a weight.
NegativeDrift(st) ==
    /\ \/ \E v \in 1..Len(st.cwt) : Less(st.es_headroom[v], Zero)
       \/ Less(st.vm_headroom, Zero)
    /\ \E v \in 1..Len(st.cwt) : Less(st.cwt[v], Zero)

\* Some state of the loop from st on shows a negative drift.
RECURSIVE DriftsFrom(_, _)
DriftsFrom(st, p_pagelen) ==
    \/ NegativeDrift(st)
    \/ /\ Len(st.ordered) < p_pagelen
       /\ DriftsFrom(StepIntents(st), p_pagelen)

Half == Rat(1, 2)

\* The pool of the concrete scenario: N = 4, V = 2.
ScenarioEs == << <<One, Zero>>, <<Zero, One>>, <<Half, Half>>, <<Zero, Zero>> >>

\* Calls of order_page_intents of the scenario's shape: N = 4 items, V = 2
\* intents, scores 0, 0.5 or 1, c = [1, 1], vm = e . c, pagelen = 2.
InitScenario ==
    /\ es \in Matrices(4, 2, {Zero, Half, One})
    /\ pwt = <<One, One>>
    /\ pagelen = 2
    /\ vms = VmsOf(es, pwt)
    /\ maxvals = <<One, One>>
    /\ iwt = pwt
    /\ NoLocals
    /\ NoEval
    /\ order_page_func = "none"
    /\ pc = "call"

SpecScenario == InitScenario /\ [][Next]_vars

\* C3: on the scenario, the locals before the loop are es_headroom = [1.5, 1.5],
\* vm_headroom = 2, cwt = [0.5, 0.5]; the first iteration scores the items
\* [0.5, 0.5, 0.5, 0] and the three-way tie goes to item 0; the second
\* iteration selects item 1; the page returned is [0, 1].
C3_Scenario ==
    (es = ScenarioEs /\ pc # "call") =>
        /\ Len(ordered_itemids) = 0 =>
             /\ es_headroom = <<Rat(3, 2), Rat(3, 2)>>
             /\ vm_headroom = Rat(2, 1)
             /\ cwt = <<Half, Half>>
        /\ Len(ordered_itemids) = 1 =>
             /\ current_scores = <<Half, Half, Half, Zero>>
             /\ ordered_itemids = <<0>>
        /\ Len(ordered_itemids) = 2 => ordered_itemids = <<0, 1>>
        /\ pc = "returned" => ordered_itemids = <<0, 1>>

\* C3 witness: the scenario's call has returned its page.
C3_Witness == es = ScenarioEs /\ vms = <<One, One, One, Zero>> /\ pc = "returned"

\* -------------------------------------------- single intent and baseline

\* Strictly positive event scores.
PositiveScores == {Rat(1, 2), Rat(1, 1), Rat(2, 1), Rat(3, 1)}

\* Strictly positive coefficients c.
PositiveWeights == {Rat(1, 2), Rat(1, 1), Rat(2, 1)}

\* Calls with a single intent: V = 1, c > 0, all scores > 0, vm = e * c,
\* 0 <= pagelen <= N.
InitSingle ==
    /\ \E n \in 1..MaxN :
         /\ es \in Matrices(n, 1, PositiveScores)
         /\ pagelen \in 0..n
    /\ pwt \in [1..1 -> PositiveWeights]
    /\ vms = VmsOf(es, pwt)
    /\ maxvals = <<One>>
    /\ iwt = pwt
    /\ NoLocals
    /\ NoEval
    /\ order_page_func = "none"
    /\ pc = "call"

\* page_ranking_baseline.py lines 26-48: order_page_vm on the same arguments,
\* called once order_page_intents has returned.
BaselineVm ==
    /\ pc = "returned"
    /\ vm_page' = OrderPageVm(vms, pagelen)
    /\ pc' = "compared"
    /\ UNCHANGED <<inputs, locals, evals>>

NextSingle == Setup \/ Iterate \/ Return \/ BaselineVm

SpecSingle == InitSingle /\ [][NextSingle]_vars

PwtOf(p_iwt, p_maxvals) == Arr([v \in 1..Len(p_iwt) |-> Div(p_iwt[v], p_maxvals[v])])

\* eval.py line 32: intent_probs = np.array(pwt) / sum(pwt).
IntentProbs(p_pwt) == Arr([v \in 1..Len(p_pwt) |-> Div(p_pwt[v], SumSeq(p_pwt))])

\* eval.py lines 41-50: the page the orderer `func` returns.
CallOrderer(func) ==
    CASE func = "order_page"         -> OrderPage(N, pagelen)
      [] func = "order_page_vm"      -> OrderPageVm(vms, pagelen)
      [] func = "order_page_intents" -> OrderPageIntents(pwt, vms, es, pagelen)

\* eval.py line 56: sum(es[itemid][selected_intent] for itemid in ordered_itemids),
\* v being selected_intent + 1.
NumeratorOf(pg, v) == SumSeq(Arr([k \in 1..Len(pg) |-> es[pg[k] + 1][v]]))

\* DenominatorOf without the [::-1]: the sum of the pagelen smallest scores.
DenominatorAscending(v) == SumSeq(FirstK(SortAsc(Column(es, v)), pagelen))

\* eval.py lines 59-62: sum(sorted(es[i][selected_intent] for i in itemids)[::-1][:pagelen]).
DenominatorOf(v) == SumSeq(FirstK(Reverse(SortAsc(Column(es, v))), pagelen))

\* eval.py lines 31-67: evaluate_ranking.  np.random.choice raises ValueError
\* on a probability that is nan or negative and never draws an intent of
\* probability 0.  With pagelen = 0 numerator and denominator are both the
\* int 0 and the division raises ZeroDivisionError; otherwise they are
\* float64 and the division follows numpy.
EvaluateRanking ==
    /\ pc = "eval"
    /\ intent_probs' = IntentProbs(pwt)
    /\ IF \E v \in 1..V : IsNaN(intent_probs'[v]) \/ Less(intent_probs'[v], Zero)
       THEN /\ pc' = "raised"
            /\ UNCHANGED <<selected_intent, page, numerator, denominator, score>>
       ELSE \E v \in 1..V :
              /\ Less(Zero, intent_probs'[v])
              /\ selected_intent' = v - 1
              /\ page' = CallOrderer(order_page_func)
              /\ numerator' = NumeratorOf(page', v)
              /\ denominator' = DenominatorOf(v)
              /\ IF page' = <<>> /\ pagelen = 0
                 THEN score' = Unset /\ pc' = "raised"
                 ELSE score' = Div(numerator', denominator') /\ pc' = "scored"
    /\ UNCHANGED <<inputs, locals, vm_page, order_page_func>>

\* Raw intent weights of generate_data(intent_wt_random=False): np.ones.
RawWeightValues == {Rat(1, 1)}

\* Normalizers maxvals generate_data draws.
NormalizerValues == {Rat(1, 2), Rat(1, 1)}

\* The orderers of the repository.
Orderers == {"order_page", "order_page_vm", "order_page_intents"}

\* A call of evaluate_ranking on arrays related as generate_data relates
\* them: pwt = iwt / maxvals, vms = es . pwt, item ids 0 .. N-1.
InitEval ==
    /\ \E s \in Shapes :
         /\ es \in Matrices(s[1], s[2], ScoreValues)
         /\ iwt \in [1..s[2] -> RawWeightValues]
         /\ maxvals \in [1..s[2] -> NormalizerValues]
         /\ pagelen \in 0..s[1]
    /\ pwt = PwtOf(iwt, maxvals)
    /\ vms = VmsOf(es, pwt)
    /\ NoLocals
    /\ NoEval
    /\ order_page_func \in Orderers
    /\ pc = "eval"

NextEval == EvaluateRanking

SpecEval == InitEval /\ [][NextEval]_vars

\* The largest mass of intent v (1-based) any k distinct items carry.
OracleMass(v, k) ==
    LET sums == {SumSeq(Arr([j \in 1..k |-> es[f[j]][v]])) :
                    f \in {g \in [1..k -> 1..N] : \A a, b \in 1..k : a < b => g[a] < g[b]}}
    IN  CHOOSE m \in sums : \A x \in sums : Leq(x, m)

\* The page holds pagelen distinct ids of itemids and one of its items has a
\* positive score for the sampled intent.
PageCoversIntent ==
    /\ Len(page) = pagelen
    /\ Distinct(page)
    /\ \A k \in 1..Len(page) : page[k] \in 0..(N - 1)
    /\ \E k \in 1..Len(page) : Less(Zero, es[page[k] + 1][selected_intent + 1])

C6_DrawByRawWeights ==
    pc \in {"scored", "raised"} =>
        \A v \in 1..V : intent_probs[v] = Div(iwt[v], SumSeq(iwt))

\* ------------------------------------------------------ invalid configuration

\* Scores, weights and normalizers of configurations that need not be valid.
ConfigScores == {Rat(-1, 1), Rat(0, 1), Rat(1, 1)}

ConfigWeights == {Rat(-1, 1), Rat(1, 1), Rat(2, 1)}

ConfigNormalizers == {Rat(0, 1), Rat(1, 1)}

\* Calls of order_page_intents (pc = "call") and of evaluate_ranking with
\* order_page_intents (pc = "eval") on configurations valid or not: pagelen up
\* to N + 1, scores and weights that may be negative, normalizers that may be
\* zero; iwt = pwt * maxvals, vms = es . pwt.
InitConfig ==
    /\ \E s \in {t \in Shapes : t[1] <= 2} :
         /\ es \in Matrices(s[1], s[2], ConfigScores)
         /\ pwt \in [1..s[2] -> ConfigWeights]
         /\ maxvals \in [1..s[2] -> ConfigNormalizers]
         /\ pagelen \in 0..(s[1] + 1)
    /\ iwt = Arr([v \in 1..Len(pwt) |-> Mul(pwt[v], maxvals[v])])
    /\ vms = VmsOf(es, pwt)
    /\ NoLocals
    /\ NoEval
    /\ pc \in {"call", "eval"}
    /\ order_page_func = IF pc = "eval" THEN "order_page_intents" ELSE "none"

NextConfig == Setup \/ Iterate \/ Return \/ EvaluateRanking

SpecConfig == InitConfig /\ [][NextConfig]_vars

\* The configuration is invalid: pagelen > N, a negative weight or score, or a
\* zero normalizer.
InvalidConfig ==
    \/ pagelen > N
    \/ \E v \in 1..V : Less(pwt[v], Zero)
    \/ \E i \in 1..N : \E v \in 1..V : Less(es[i][v], Zero)
    \/ \E v \in 1..V : maxvals[v] = Zero

\* C5: an invalid configuration is rejected before any computation: no
\* headroom is computed, no iteration runs, no page or score is returned.
C5_InvalidRejected ==
    InvalidConfig =>
        /\ pc \notin {"loop", "returned", "scored"}
        /\ es_headroom = Unset
        /\ ordered_itemids = Unset
        /\ page = Unset
        /\ score = Unset

====
